---- MODULE Spec2Model ----
(***************************************************************************)
(* GoogleDriveCloner (googledrive_cloner/google_connections.py) as a state *)
(* machine.  The session is sequential: its call stack is the variable     *)
(* stack, and every step performs at most one remote operation.  The       *)
(* provider (the Drive files service) is the variable files; beside        *)
(* answering the session's requests it may surface duplicate entries       *)
(* ("strays") under the parent of a file that was copied, and a request    *)
(* may fail in transport.                                                  *)
(***************************************************************************)
EXTENDS Integers, Sequences, FiniteSets, TLC

VARIABLES
  files,           \* provider: id -> [name, mimeType, parents]
  nextId,          \* provider: next id handed out by Create and Copy
  strays,          \* provider: number of strays surfaced so far
  faults,          \* provider: number of transport failures so far
  file_info,       \* session: self.file_info, the Snapshot
  copied_files,    \* session: self.copied_files
  folders_copied,  \* session: self.folders_copied
  stack,           \* session: call stack, innermost frame first
  ret,             \* value returned by the frame that returned last
  raised,          \* number of exception objects created so far
  calls,           \* the calls made by the session's user
  results,         \* how each finished call ended
  log              \* every request issued, sleep taken and call of interest

vars == <<files, nextId, strays, faults, file_info, copied_files,
          folders_copied, stack, ret, raised, calls, results, log>>

-----------------------------------------------------------------------------
(* Bounds of the model *)

MaxStrays == 2
MaxFaults == 1
MaxCalls == 2
MaxRuns == 1
MaxPages == 3
MaxShortPages == 1
MaxDepth == 6

-----------------------------------------------------------------------------
(* Program constants *)

FOLDER_TYPE == "application/vnd.google-apps.folder"
SPREADSHEET_TYPE == "application/vnd.google-apps.spreadsheet"
OTHER_TYPE == "mime"
CLEANUP_SLEEP == 45
SPREADSHEET_SLEEP == 30
COPY_SLEEP == 1

\* None, for an id, a name (also the empty string: the code only tests
\* truthiness) and a mime type
NoId == 0
NoName == <<>>
NoMime == ""
\* no page token: None
NoToken == 0

\* A name is a sequence of tokens; the decoration prefix is one token.
prefix == <<"Copy of ">>

MIME_TYPE_ORDER(mimeType) ==
  IF mimeType = FOLDER_TYPE THEN 1
  ELSE IF mimeType = SPREADSHEET_TYPE THEN 0
  ELSE -1

\* str.startswith(prefix)
StartsWith(name, p) ==
  Len(name) >= Len(p) /\ SubSeq(name, 1, Len(p)) = p

\* clean_name of _cleanup_files: one leading prefix removed, if present
CleanName(name) ==
  IF StartsWith(name, prefix)
  THEN SubSeq(name, Len(prefix) + 1, Len(name))
  ELSE name

Range(s) == {s[i] : i \in DOMAIN s}

RECURSIVE Ascending(_)
\* the ids of S as a sequence, in the order the Snapshot holds them
Ascending(S) ==
  IF S = {} THEN <<>>
  ELSE LET m == CHOOSE x \in S : \A y \in S : x <= y
       IN <<m>> \o Ascending(S \ {m})

-----------------------------------------------------------------------------
(* The provider *)

File(name, mimeType, parents) ==
  [name |-> name, mimeType |-> mimeType, parents |-> parents]

\* the drive at session start
InitFiles ==
  [i \in 1..7 |->
     CASE i = 1 -> File(<<"r">>, FOLDER_TYPE, <<>>)
       [] i = 2 -> File(<<"a">>, OTHER_TYPE, <<1>>)
       [] i = 3 -> File(<<"b">>, FOLDER_TYPE, <<1>>)
       [] i = 4 -> File(<<"c">>, OTHER_TYPE, <<3>>)
       [] i = 5 -> File(<<"s">>, SPREADSHEET_TYPE, <<1>>)
       [] i = 6 -> File(<<"d">>, FOLDER_TYPE, <<>>)
       [] OTHER -> File(<<"m">>, OTHER_TYPE, <<6, 3>>)]

\* a drive whose folders r and b hold each other
LoopFiles == [InitFiles EXCEPT ![1].parents = <<3>>]

Put(fs, id, f) == [i \in DOMAIN fs \cup {id} |-> IF i = id THEN f ELSE fs[i]]

\* files().create
CreateOp(fs, id, name, parent) == Put(fs, id, File(name, FOLDER_TYPE, <<parent>>))

\* the names the provider may give a clone: the original's, or the original's
\* decorated
CloneNames(fs, fileId) == {fs[fileId].name, prefix \o fs[fileId].name}

\* files().copy: the clone stays beside the original
CopyOp(fs, fileId, id, name) ==
  Put(fs, id, File(name, fs[fileId].mimeType, fs[fileId].parents))

\* files().delete
DeleteOp(fs, fileId) == [i \in DOMAIN fs \ {fileId} |-> fs[i]]

\* list.remove: the first occurrence goes
RemoveFirst(s, x) ==
  LET k == CHOOSE i \in DOMAIN s : s[i] = x /\ \A j \in 1..(i - 1) : s[j] # x
  IN SubSeq(s, 1, k - 1) \o SubSeq(s, k + 1, Len(s))

\* files().update
UpdateOp(fs, fileId, addParents, removeParents, name) ==
  Put(fs, fileId,
      File(name, fs[fileId].mimeType,
           Append(RemoveFirst(fs[fileId].parents, removeParents), addParents)))

\* files().list with q = "'<parent>' in parents", as _get_file_info_one_page
\* returns it: id -> info, the first parent only
ListOp(fs, parent) ==
  LET ids == {i \in DOMAIN fs : parent \in Range(fs[i].parents)}
  IN [i \in ids |-> [name |-> fs[i].name, mimeType |-> fs[i].mimeType,
                     parent |-> fs[i].parents[1]]]

\* _get_all_file_info: the Snapshot of the whole drive
SnapshotOf(fs) ==
  [i \in DOMAIN fs |->
     [name |-> fs[i].name, mimeType |-> fs[i].mimeType,
      parent |-> IF fs[i].parents = <<>> THEN NoId ELSE fs[i].parents[1]]]

-----------------------------------------------------------------------------
(* The session's bookkeeping: log, exceptions, call and return *)

Entry(op, id, a, b, name) == [op |-> op, id |-> id, a |-> a, b |-> b, name |-> name]
Sleep(seconds) == Entry("sleep", NoId, seconds, NoId, NoName)

NoExc == [kind |-> "", serial |-> 0]

Top(fn, pc) == stack # <<>> /\ stack[1].fn = fn /\ stack[1].pc = pc

\* the innermost frame moves on, after pushing the frames of the calls it makes
Goto(pushed, frame) ==
  /\ stack' = pushed \o <<frame>> \o Tail(stack)
  /\ UNCHANGED <<ret, raised, results>>

\* the innermost frame returns v
Return(v) ==
  /\ stack' = Tail(stack)
  /\ ret' = v
  /\ raised' = raised
  /\ results' = IF Len(stack) = 1
                THEN Append(results, [value |-> v, exc |-> NoExc])
                ELSE results

\* exception e leaves the innermost frame: the only handler is the try block
\* of run, around its call of copy_item
Throw(e) ==
  LET bottom == stack[Len(stack)]
  IN /\ ret' = ret
     /\ IF bottom.fn = "run" /\ bottom.pc = "traverse"
        THEN /\ stack' = <<[bottom EXCEPT !.failed = TRUE, !.exception = e,
                                          !.pc = "sleep"]>>
             /\ results' = results
        ELSE /\ stack' = <<>>
             /\ results' = Append(results, [value |-> NoId, exc |-> e])

\* a new exception object
Raise(kind) ==
  /\ raised' = raised + 1
  /\ Throw([kind |-> kind, serial |-> raised + 1])

-----------------------------------------------------------------------------
(* move_file *)

MoveFileFrame(file_id, destination_parent_id, current_parent_id, name, mime_type) ==
  [fn |-> "move_file", pc |-> "start", file_id |-> file_id,
   destination_parent_id |-> destination_parent_id,
   current_parent_id |-> current_parent_id, name |-> name,
   mime_type |-> mime_type]

\* not (current_parent_id and name and mime_type)
MustFetch(f) ==
  /\ f.pc = "start"
  /\ ~(f.current_parent_id # NoId /\ f.name # NoName /\ f.mime_type # NoMime)

\* what move_file keeps of the metadata it fetched
Fetched(f, info) ==
  [f EXCEPT !.pc = "update", !.current_parent_id = info.parents[1],
            !.name = info.name, !.mime_type = info.mimeType]

\* _get_one_file_info, when something was not passed
MoveFileGet ==
  /\ stack # <<>> /\ stack[1].fn = "move_file" /\ MustFetch(stack[1])
  /\ LET f == stack[1]
     IN IF f.file_id \notin DOMAIN files
        THEN Raise("HttpError") /\ log' = log
        ELSE IF files[f.file_id].parents = <<>>
        THEN /\ Raise("KeyError")
             /\ log' = Append(log, Entry("get", f.file_id, NoId, NoId, NoName))
        ELSE /\ Goto(<<>>, Fetched(f, files[f.file_id]))
             /\ log' = Append(log, Entry("get", f.file_id, NoId, NoId, NoName))
  /\ UNCHANGED <<files, nextId, strays, faults, file_info, copied_files,
                 folders_copied, calls>>

\* service.update(fileId, addParents, removeParents, body)
MoveFileUpdate ==
  /\ stack # <<>> /\ stack[1].fn = "move_file" /\ ~MustFetch(stack[1])
  /\ LET f == stack[1]
     IN IF \/ f.file_id \notin DOMAIN files
           \/ f.current_parent_id \notin Range(files[f.file_id].parents)
        THEN Raise("HttpError") /\ UNCHANGED <<files, log>>
        ELSE /\ files' = UpdateOp(files, f.file_id, f.destination_parent_id,
                                  f.current_parent_id, f.name)
             /\ log' = Append(log, Entry("update", f.file_id,
                                         f.destination_parent_id,
                                         f.current_parent_id, f.name))
             /\ Return(f.file_id)
  /\ UNCHANGED <<nextId, strays, faults, file_info, copied_files,
                 folders_copied, calls>>

-----------------------------------------------------------------------------
(* _cleanup_files *)

\* no two children of d on the drive fs share a name
Unambiguous(fs, d) ==
  \A i, j \in DOMAIN fs :
    (/\ d \in Range(fs[i].parents) /\ d \in Range(fs[j].parents)
     /\ fs[i].name = fs[j].name) => i = j

\* start: the place in the log of the call this frame serves; withheld: the
\* files the provider keeps for a later page of the listing to come; clear:
\* whether the destination's names were distinct when the call was made
CleanupFrame(parent_id, destination_parent_id, start) ==
  [fn |-> "_cleanup_files", pc |-> "list_current", parent_id |-> parent_id,
   destination_parent_id |-> destination_parent_id,
   files_in_current |-> <<>>, files_in_destination |-> <<>>,
   destination_file_name_to_id |-> <<>>,
   todo |-> {}, current_file_id |-> NoId, start |-> start, withheld |-> {},
   clear |-> Unambiguous(files, destination_parent_id)]

\* files_in_current, _ = self._get_file_info_one_page(query): the first page
\* of the listing, and the token that came with it, which is dropped
FirstPage(f, parent) ==
  LET listing == ListOp(files, parent)
  IN [i \in DOMAIN listing \ f.withheld |-> listing[i]]

PageToken(f, parent) ==
  IF DOMAIN ListOp(files, parent) \cap f.withheld # {} THEN 1 ELSE NoToken

CleanupCall(parent_id, destination_parent_id) ==
  Entry("_cleanup_files", parent_id, destination_parent_id, NoId, NoName)

\* {v["name"]: k for k, v in files_in_destination.items()}: of several entries
\* with one name the last listed stays, and the listing's order is the
\* provider's
NameMaps(listing) ==
  LET names == {listing[i].name : i \in DOMAIN listing}
  IN {m \in [names -> DOMAIN listing] : \A n \in names : listing[m[n]].name = n}

\* the Snapshot as it would be if the loop's file_info were self.file_info
SnapshotWithListing(listing) ==
  [i \in DOMAIN file_info \cup DOMAIN listing |->
     IF i \in DOMAIN listing THEN listing[i] ELSE file_info[i]]

\* self.file_info after the listing: the loop's file_info is a local of its
\* own, so the Snapshot stays as it is
SnapshotAfterListing(listing) == file_info

CleanupListCurrent ==
  /\ Top("_cleanup_files", "list_current")
  /\ LET f == stack[1]
     IN /\ Goto(<<>>, [f EXCEPT !.pc = "list_destination",
                                !.files_in_current = FirstPage(f, f.parent_id),
                                !.withheld = {}])
        /\ log' = Append(log, Entry("list", f.parent_id, NoToken,
                                    PageToken(f, f.parent_id), NoName))
        /\ file_info' = SnapshotAfterListing(FirstPage(f, f.parent_id))
  /\ UNCHANGED <<files, nextId, strays, faults, copied_files, folders_copied,
                 calls>>

CleanupListDestination ==
  /\ Top("_cleanup_files", "list_destination")
  /\ LET f == stack[1]
     IN /\ \E m \in NameMaps(FirstPage(f, f.destination_parent_id)) :
             Goto(<<>>, [f EXCEPT !.pc = "loop",
                                  !.files_in_destination =
                                     FirstPage(f, f.destination_parent_id),
                                  !.destination_file_name_to_id = m,
                                  !.todo = DOMAIN f.files_in_current,
                                  !.withheld = {}])
        /\ log' = Append(log, Entry("list", f.destination_parent_id, NoToken,
                                    PageToken(f, f.destination_parent_id),
                                    NoName))
  /\ UNCHANGED <<files, nextId, strays, faults, file_info, copied_files,
                 folders_copied, calls>>

\* the clean name of a listed file: stripped only for a file the Snapshot
\* does not hold
CleanOf(f, id) ==
  IF id \notin DOMAIN file_info
  THEN CleanName(f.files_in_current[id].name)
  ELSE f.files_in_current[id].name

\* the listed file is one the Snapshot does not hold
IsNew(id) == id \notin DOMAIN file_info

\* a copy is in the destination under the clean name
Collides(f, id) == CleanOf(f, id) \in DOMAIN f.destination_file_name_to_id

IdToDelete(f, id) == f.destination_file_name_to_id[CleanOf(f, id)]

\* _cleanup_files without its test of id_to_delete
AlreadyMovedUntested(f, id) == FALSE

\* if id_to_delete == current_file_id: continue
AlreadyMoved(f, id) == Collides(f, id) /\ IdToDelete(f, id) = id

\* a loop that passes over every listed file
PassedAll(f) == f.todo

\* the listed files the loop passes over: an original, or a file that has
\* already moved
Passed(f) == {id \in f.todo : ~IsNew(id) \/ AlreadyMoved(f, id)}

\* Nothing to do for these.  The loop follows the listing's order, which is
\* the provider's; passing over a file changes nothing, whenever it happens,
\* so these iterations are taken first and together.
CleanupSkip ==
  /\ Top("_cleanup_files", "loop")
  /\ Passed(stack[1]) # {}
  /\ LET f == stack[1]
     IN Goto(<<>>, [f EXCEPT !.todo = f.todo \ Passed(f)])
  /\ UNCHANGED <<files, nextId, strays, faults, file_info, copied_files,
                 folders_copied, calls, log>>

\* self._delete_file(id_to_delete)
CleanupDelete ==
  /\ Top("_cleanup_files", "loop")
  /\ Passed(stack[1]) = {}
  /\ LET f == stack[1]
     IN \E id \in f.todo :
          /\ IsNew(id) /\ Collides(f, id) /\ ~AlreadyMoved(f, id)
          /\ IF IdToDelete(f, id) \notin DOMAIN files
             THEN Raise("HttpError") /\ UNCHANGED <<files, log>>
             ELSE /\ files' = DeleteOp(files, IdToDelete(f, id))
                  /\ log' = Append(log, Entry("delete", IdToDelete(f, id), NoId,
                                              NoId, NoName))
                  /\ Goto(<<>>, [f EXCEPT !.pc = "move", !.current_file_id = id])
  /\ UNCHANGED <<nextId, strays, faults, file_info, copied_files,
                 folders_copied, calls>>

\* the move of the file being cleaned up, under the name it was listed with
CleanupMoveOfListedName(f, id) ==
  Goto(<<MoveFileFrame(id, f.destination_parent_id, f.parent_id,
                       f.files_in_current[id].name,
                       f.files_in_current[id].mimeType)>>,
       [f EXCEPT !.pc = "loop", !.todo = f.todo \ {id}, !.current_file_id = NoId])

\* the move of the file being cleaned up
CleanupMoveOf(f, id) ==
  Goto(<<MoveFileFrame(id, f.destination_parent_id, f.parent_id, CleanOf(f, id),
                       f.files_in_current[id].mimeType)>>,
       [f EXCEPT !.pc = "loop", !.todo = f.todo \ {id}, !.current_file_id = NoId])

\* self.move_file(current_file_id, ...)
CleanupMove ==
  /\ stack # <<>> /\ stack[1].fn = "_cleanup_files"
  /\ LET f == stack[1]
     IN IF f.pc = "move"
        THEN CleanupMoveOf(f, f.current_file_id)
        ELSE /\ f.pc = "loop"
             /\ Passed(f) = {}
             /\ \E id \in f.todo :
                  IsNew(id) /\ ~Collides(f, id) /\ CleanupMoveOf(f, id)
  /\ UNCHANGED <<files, nextId, strays, faults, file_info, copied_files,
                 folders_copied, calls, log>>

CleanupDone ==
  /\ Top("_cleanup_files", "loop")
  /\ stack[1].todo = {}
  /\ Return(NoId)
  /\ UNCHANGED <<files, nextId, strays, faults, file_info, copied_files,
                 folders_copied, calls, log>>

-----------------------------------------------------------------------------
(* copy_file *)

\* start: the length of the log when the call was made
CopyFileFrame(file_id, destination_parent_id, start) ==
  [fn |-> "copy_file", pc |-> "clone", file_id |-> file_id,
   destination_parent_id |-> destination_parent_id, moved |-> NoId,
   start |-> start]

\* copy_file moving the clone under the name the provider gave it
CopyFileMoveOfUnrenamed(f, cloned) ==
  MoveFileFrame(cloned, f.destination_parent_id, file_info[f.file_id].parent,
                prefix \o file_info[f.file_id].name,
                file_info[f.file_id].mimeType)

\* the move copy_file asks for: the clone, out of the original's Snapshot
\* parent, under the original's Snapshot name
CopyFileMoveOf(f, cloned) ==
  MoveFileFrame(cloned, f.destination_parent_id, file_info[f.file_id].parent,
                file_info[f.file_id].name, file_info[f.file_id].mimeType)

\* cloned = self._clone_file(file_id); current = self.file_info[file_id];
\* then the call of move_file
CopyFileClone ==
  /\ Top("copy_file", "clone")
  /\ LET f == stack[1]
     IN IF f.file_id \notin DOMAIN files
        THEN Raise("HttpError") /\ UNCHANGED <<files, nextId, log>>
        ELSE /\ \E name \in CloneNames(files, f.file_id) :
                  files' = CopyOp(files, f.file_id, nextId, name)
             /\ nextId' = nextId + 1
             /\ log' = Append(log, Entry("copy", f.file_id, nextId, NoId, NoName))
             /\ IF \/ f.file_id \notin DOMAIN file_info
                   \/ file_info[f.file_id].parent = NoId
                THEN Raise("KeyError")
                ELSE Goto(<<CopyFileMoveOf(f, nextId)>>, [f EXCEPT !.pc = "moved"])
  /\ UNCHANGED <<strays, faults, file_info, copied_files, folders_copied, calls>>

\* a copy_file that pauses after every move
SettleAlways(current) == <<Sleep(SPREADSHEET_SLEEP)>>

\* if current["mimeType"] == SPREADSHEET_TYPE: time.sleep(SPREADSHEET_SLEEP)
Settle(current) ==
  IF current.mimeType = SPREADSHEET_TYPE
  THEN <<Sleep(SPREADSHEET_SLEEP)>> ELSE <<>>

\* after the move: the pause for a spreadsheet, copied_files.add, and the
\* call of _cleanup_files
CopyFileMoved ==
  /\ Top("copy_file", "moved")
  /\ LET f == stack[1]
         current == file_info[f.file_id]
         slept == Settle(current)
     IN /\ copied_files' = copied_files \cup {f.file_id}
        /\ log' = log \o slept
                      \o <<CleanupCall(current.parent, f.destination_parent_id)>>
        /\ Goto(<<CleanupFrame(current.parent, f.destination_parent_id,
                               Len(log'))>>,
                [f EXCEPT !.pc = "cleaned", !.moved = ret])
  /\ UNCHANGED <<files, nextId, strays, faults, file_info, folders_copied, calls>>

\* return moved
CopyFileReturn ==
  /\ Top("copy_file", "cleaned")
  /\ Return(stack[1].moved)
  /\ UNCHANGED <<files, nextId, strays, faults, file_info, copied_files,
                 folders_copied, calls, log>>

-----------------------------------------------------------------------------
(* copy_item *)

CopyItemFrame(item_id, destination_parent_id, new_name) ==
  [fn |-> "copy_item", pc |-> "start", item_id |-> item_id,
   destination_parent_id |-> destination_parent_id, new_name |-> new_name,
   created_folder_id |-> NoId, todo |-> <<>>]

\* the Snapshot entries that have the item among their parents on the drive
ChildrenOfAnyParent(item_id) ==
  {c \in DOMAIN file_info :
     c \in DOMAIN files /\ item_id \in Range(files[c].parents)}

\* the Snapshot entries whose parent is the item
ChildrenOf(item_id) ==
  {c \in DOMAIN file_info : file_info[c].parent = item_id}

\* the children of one priority, in the Snapshot's order
ChildGroup(item_id, priority) ==
  Ascending({c \in ChildrenOf(item_id) :
               MIME_TYPE_ORDER(file_info[c].mimeType) = priority})

\* the groups in the order sorted() gives, the reversal forgotten
child_files_to_copy_unreversed(item_id) ==
  ChildGroup(item_id, -1) \o ChildGroup(item_id, 0) \o ChildGroup(item_id, 1)

\* list(sorted(child_files_to_copy))[::-1]: the groups, highest priority first
child_files_to_copy(item_id) ==
  ChildGroup(item_id, 1) \o ChildGroup(item_id, 0) \o ChildGroup(item_id, -1)

\* copy_item without its test of copied_files
AlreadyCopiedUntested(item_id) == FALSE

\* if item_id in self.copied_files: return None
AlreadyCopied(item_id) == item_id \in copied_files

\* time.sleep(COPY_SLEEP), the look-up in the Snapshot, the test of
\* copied_files, and the choice between folder and file
CopyItemEnter ==
  /\ Top("copy_item", "start")
  /\ log' = Append(log, Sleep(COPY_SLEEP))
  /\ LET f == stack[1]
     IN IF f.item_id \notin DOMAIN file_info
        THEN Raise("KeyError")
        ELSE IF AlreadyCopied(f.item_id)
        THEN Return(NoId)
        ELSE IF file_info[f.item_id].mimeType = FOLDER_TYPE
        THEN Goto(<<>>, [f EXCEPT !.pc = "create"])
        ELSE Goto(<<CopyFileFrame(f.item_id, f.destination_parent_id, Len(log'))>>,
                  [f EXCEPT !.pc = "leaf"])
  /\ UNCHANGED <<files, nextId, strays, faults, file_info, copied_files,
                 folders_copied, calls>>

\* new_name or item_info["name"]
FolderName(f) ==
  IF f.new_name # NoName THEN f.new_name ELSE file_info[f.item_id].name

\* create_folder, and the grouping of the children by priority
CopyItemCreate ==
  /\ Top("copy_item", "create")
  /\ LET f == stack[1]
     IN /\ files' = CreateOp(files, nextId, FolderName(f), f.destination_parent_id)
        /\ nextId' = nextId + 1
        /\ log' = Append(log, Entry("create", nextId, f.destination_parent_id,
                                    f.item_id, FolderName(f)))
        /\ Goto(<<>>, [f EXCEPT !.pc = "children", !.created_folder_id = nextId,
                                !.todo = child_files_to_copy(f.item_id)])
  /\ UNCHANGED <<strays, faults, file_info, copied_files, folders_copied, calls>>

\* the recursion handing the folder's new name down to the child
ChildNameInherited(f) == f.new_name

\* the new_name of the recursive call: not passed, so None
ChildName(f) == NoName

\* an interpreter that never cuts a recursion off
RecursionUnlimited(depth) == FALSE

\* the interpreter's recursion limit: no further call at this depth
RecursionLimit(depth) == depth >= MaxDepth

\* self.copy_item(file_id, created_folder_id)
CopyItemChild ==
  /\ Top("copy_item", "children")
  /\ stack[1].todo # <<>>
  /\ Len(stack) < MaxDepth
  /\ LET f == stack[1]
     IN Goto(<<CopyItemFrame(Head(f.todo), f.created_folder_id, ChildName(f))>>,
             [f EXCEPT !.todo = Tail(f.todo)])
  /\ UNCHANGED <<files, nextId, strays, faults, file_info, copied_files,
                 folders_copied, calls, log>>

\* self.copy_item(file_id, created_folder_id), nested too deep: RecursionError
CopyItemTooDeep ==
  /\ Top("copy_item", "children")
  /\ stack[1].todo # <<>>
  /\ RecursionLimit(Len(stack))
  /\ Raise("RecursionError")
  /\ UNCHANGED <<files, nextId, strays, faults, file_info, copied_files,
                 folders_copied, calls, log>>

\* copied_files.add, folders_copied.append, return created_folder_id
CopyItemDone ==
  /\ Top("copy_item", "children")
  /\ stack[1].todo = <<>>
  /\ LET f == stack[1]
     IN /\ copied_files' = copied_files \cup {f.item_id}
        /\ folders_copied' = Append(folders_copied,
                                    <<f.item_id, f.created_folder_id>>)
        /\ Return(f.created_folder_id)
  /\ UNCHANGED <<files, nextId, strays, faults, file_info, calls, log>>

\* return self.copy_file(...)
CopyItemLeaf ==
  /\ Top("copy_item", "leaf")
  /\ Return(ret)
  /\ UNCHANGED <<files, nextId, strays, faults, file_info, copied_files,
                 folders_copied, calls, log>>

-----------------------------------------------------------------------------
(* run_cleanup and run *)

RunCleanupFrame == [fn |-> "run_cleanup", pc |-> "loop", i |-> 1]

RunFrame(base_folder_id, destination_parent_folder_id, new_name) ==
  [fn |-> "run", pc |-> "traverse", base_folder_id |-> base_folder_id,
   destination_parent_folder_id |-> destination_parent_folder_id,
   new_name |-> new_name, failed |-> FALSE, exception |-> NoExc,
   result |-> NoId]

\* for parent, destination in self.folders_copied: self._cleanup_files(...)
RunCleanupNext ==
  /\ Top("run_cleanup", "loop")
  /\ stack[1].i <= Len(folders_copied)
  /\ LET f == stack[1]
         pair == folders_copied[f.i]
     IN /\ log' = Append(log, CleanupCall(pair[1], pair[2]))
        /\ Goto(<<CleanupFrame(pair[1], pair[2], Len(log'))>>,
                [f EXCEPT !.i = f.i + 1])
  /\ UNCHANGED <<files, nextId, strays, faults, file_info, copied_files,
                 folders_copied, calls>>

RunCleanupDone ==
  /\ Top("run_cleanup", "loop")
  /\ stack[1].i > Len(folders_copied)
  /\ Return(NoId)
  /\ UNCHANGED <<files, nextId, strays, faults, file_info, copied_files,
                 folders_copied, calls, log>>

\* copy_item returned: result = ...
RunTraversed ==
  /\ Top("run", "traverse")
  /\ Goto(<<>>, [stack[1] EXCEPT !.pc = "sleep", !.result = ret])
  /\ UNCHANGED <<files, nextId, strays, faults, file_info, copied_files,
                 folders_copied, calls, log>>

\* time.sleep(CLEANUP_SLEEP); self.run_cleanup()
RunSweep ==
  /\ Top("run", "sleep")
  /\ log' = Append(log, Sleep(CLEANUP_SLEEP))
  /\ Goto(<<RunCleanupFrame>>, [stack[1] EXCEPT !.pc = "end"])
  /\ UNCHANGED <<files, nextId, strays, faults, file_info, copied_files,
                 folders_copied, calls>>

\* if failed: raise exception; return result
RunEnd ==
  /\ Top("run", "end")
  /\ IF stack[1].failed
     THEN raised' = raised /\ Throw(stack[1].exception)
     ELSE Return(stack[1].result)
  /\ UNCHANGED <<files, nextId, strays, faults, file_info, copied_files,
                 folders_copied, calls, log>>

-----------------------------------------------------------------------------
(* The provider's own behaviour *)

\* the innermost frame is about to send a request
AtRequest(f) ==
  \/ f.fn = "move_file"
  \/ f.fn = "copy_file" /\ f.pc = "clone"
  \/ f.fn = "copy_item" /\ f.pc = "create"
  \/ f.fn = "_cleanup_files" /\ f.pc \in {"list_current", "list_destination"}
  \/ /\ f.fn = "_cleanup_files" /\ f.pc = "loop" /\ Passed(f) = {}
     /\ \E id \in f.todo : IsNew(id) /\ Collides(f, id) /\ ~AlreadyMoved(f, id)

\* execute() raises: the request fails in transport, retries included
TransportFailure ==
  /\ stack # <<>> /\ AtRequest(stack[1])
  /\ faults < MaxFaults
  /\ faults' = faults + 1
  /\ Raise("HttpError")
  /\ UNCHANGED <<files, nextId, strays, file_info, copied_files, folders_copied,
                 calls, log>>

\* a copy of fileId was asked for
WasCopied(fileId) == \E k \in DOMAIN log : log[k].op = "copy" /\ log[k].id = fileId

\* the id of the next stray: strays come from a pool of their own
StrayId == 0 - (strays + 1)

\* The provider surfaces a duplicate of a copied file beside the file, named
\* as a copy is.  Only a listing shows it, so it appears as the session is
\* about to list.
ProviderStray ==
  /\ stack # <<>> /\ stack[1].fn = "_cleanup_files"
  /\ stack[1].pc \in {"list_current", "list_destination"}
  /\ strays < MaxStrays
  /\ \E x \in DOMAIN file_info :
       /\ x \in DOMAIN files
       /\ WasCopied(x)
       /\ files[x].parents # <<>>
       /\ files' = Put(files, StrayId,
                       File(prefix \o files[x].name, files[x].mimeType,
                            <<files[x].parents[1]>>))
  /\ strays' = strays + 1
  /\ UNCHANGED <<nextId, faults, file_info, copied_files, folders_copied, stack,
                 ret, raised, calls, results, log>>

\* the listings the provider has cut short so far
ShortPages == {j \in DOMAIN log : log[j].op = "list" /\ log[j].b # NoToken}

\* The provider puts only some of a folder's children on the first page of the
\* listing the session is about to ask for, and keeps the others for a later
\* page.
ProviderShortPage ==
  /\ stack # <<>> /\ stack[1].fn = "_cleanup_files"
  /\ stack[1].pc \in {"list_current", "list_destination"}
  /\ stack[1].withheld = {}
  /\ Cardinality(ShortPages) < MaxShortPages
  /\ LET f == stack[1]
         parent == IF f.pc = "list_current" THEN f.parent_id
                   ELSE f.destination_parent_id
     IN \E S \in SUBSET DOMAIN ListOp(files, parent) :
          /\ S # {}
          /\ stack' = <<[f EXCEPT !.withheld = S]>> \o Tail(stack)
  /\ UNCHANGED <<files, nextId, strays, faults, file_info, copied_files,
                 folders_copied, ret, raised, calls, results, log>>

-----------------------------------------------------------------------------
(* _get_all_file_info: the construction of the Snapshot *)

\* file_id_to_info, next_token and init are the function's locals; rest (the
\* files the provider has not yet returned) and returned (the pages it has
\* returned) are the provider's side of the listing
GetAllFrame ==
  [fn |-> "_get_all_file_info", pc |-> "loop", init |-> TRUE,
   next_token |-> NoToken, file_id_to_info |-> <<>>,
   rest |-> DOMAIN files, returned |-> <<>>]

\* the loop as it would be if it went on only for the first page
GetAllContinuesFirstOnly(f) == f.init

\* while init or next_token
GetAllContinues(f) == f.init \/ f.next_token # NoToken

\* for file_id, info in next_page_info.items(): file_id_to_info[file_id] = info
Merged(old, page) ==
  [i \in DOMAIN old \cup page |->
     IF i \in page THEN SnapshotOf(files)[i] ELSE old[i]]

\* One turn of the loop: _get_file_info_one_page(page_token=next_token) and
\* the merge of the page.  The provider returns some of the files it has not
\* returned yet, with a token if it has more pages; its last page carries the
\* rest of them and no token.
GetAllPage ==
  /\ Top("_get_all_file_info", "loop")
  /\ GetAllContinues(stack[1])
  /\ LET f == stack[1]
         n == Len(f.returned) + 1
     IN \E page \in SUBSET f.rest, more \in BOOLEAN :
          /\ more => n < MaxPages
          /\ ~more => page = f.rest
          /\ log' = Append(log, Entry("list", NoId, f.next_token,
                                      IF more THEN n + 1 ELSE NoToken, NoName))
          /\ Goto(<<>>, [f EXCEPT !.init = FALSE,
                                  !.next_token = IF more THEN n + 1 ELSE NoToken,
                                  !.file_id_to_info = Merged(f.file_id_to_info, page),
                                  !.rest = f.rest \ page,
                                  !.returned = Append(f.returned, page)])
  /\ UNCHANGED <<files, nextId, strays, faults, file_info, copied_files,
                 folders_copied, calls>>

\* return dict(file_id_to_info), and the rest of __init__
GetAllDone ==
  /\ Top("_get_all_file_info", "loop")
  /\ ~GetAllContinues(stack[1])
  /\ file_info' = stack[1].file_id_to_info
  /\ copied_files' = {}
  /\ folders_copied' = <<>>
  /\ Return(NoId)
  /\ UNCHANGED <<files, nextId, strays, faults, calls, log>>

-----------------------------------------------------------------------------
(* The calls of the session's user *)

\* an id the drive never held
UnknownId == 0 - (MaxStrays + MaxFaults + MaxCalls + 1)

NewNames == {NoName, <<"n">>}

\* a call as the user made it; at, copied and parents record the log's
\* length, copied_files and the parents of the file at that moment
Call(fn, id, dest, name, cur, mime) ==
  [fn |-> fn, id |-> id, dest |-> dest, name |-> name, cur |-> cur,
   mime |-> mime, at |-> Len(log), copied |-> copied_files,
   parents |-> IF id \in DOMAIN files THEN files[id].parents ELSE <<>>]

Idle == stack = <<>> /\ Len(calls) < MaxCalls

CallRun ==
  /\ stack = <<>> /\ Len(calls) < MaxRuns
  /\ \E base \in {1, UnknownId}, dest \in {6, 1}, new_name \in NewNames :
       /\ stack' = <<CopyItemFrame(base, dest, new_name),
                     RunFrame(base, dest, new_name)>>
       /\ calls' = Append(calls, Call("run", base, dest, new_name, NoId, NoMime))
  /\ UNCHANGED <<files, nextId, strays, faults, file_info, copied_files,
                 folders_copied, ret, raised, results, log>>

\* a second run of the session, for a folder the Snapshot does not hold
CallRunAgain ==
  /\ stack = <<>> /\ Len(calls) = MaxRuns /\ Len(calls) < MaxCalls
  /\ \E dest \in {6, 1} :
       /\ stack' = <<CopyItemFrame(UnknownId, dest, NoName),
                     RunFrame(UnknownId, dest, NoName)>>
       /\ calls' = Append(calls, Call("run", UnknownId, dest, NoName, NoId,
                                      NoMime))
  /\ UNCHANGED <<files, nextId, strays, faults, file_info, copied_files,
                 folders_copied, ret, raised, results, log>>

\* the run of a session, of any item and into any folder: one outside the
\* item, the item itself, or a folder inside it
CallRunAnywhere ==
  /\ stack = <<>> /\ Len(calls) < MaxRuns
  /\ \E base \in {1, 2, 3, UnknownId}, dest \in {6, 1, 3} :
       /\ stack' = <<CopyItemFrame(base, dest, NoName),
                     RunFrame(base, dest, NoName)>>
       /\ calls' = Append(calls, Call("run", base, dest, NoName, NoId, NoMime))
  /\ UNCHANGED <<files, nextId, strays, faults, file_info, copied_files,
                 folders_copied, ret, raised, results, log>>

CallCopyItem ==
  /\ Idle
  /\ \E item \in {1, 2, 3}, dest \in {6, 1} :
       /\ stack' = <<CopyItemFrame(item, dest, NoName)>>
       /\ calls' = Append(calls, Call("copy_item", item, dest, NoName, NoId,
                                      NoMime))
  /\ UNCHANGED <<files, nextId, strays, faults, file_info, copied_files,
                 folders_copied, ret, raised, results, log>>

\* the only copy_item of a session
CallCopyOnce ==
  /\ stack = <<>> /\ calls = <<>>
  /\ \E item \in {1, 2}, dest \in {6, 1} :
       /\ stack' = <<CopyItemFrame(item, dest, NoName)>>
       /\ calls' = Append(calls, Call("copy_item", item, dest, NoName, NoId,
                                      NoMime))
  /\ UNCHANGED <<files, nextId, strays, faults, file_info, copied_files,
                 folders_copied, ret, raised, results, log>>

CallMoveFile ==
  /\ Idle
  /\ \E file \in {2, 7}, dest \in {6, 1}, name \in NewNames,
        mime \in {NoMime, OTHER_TYPE} :
       \E cur \in {NoId} \cup Range(files[file].parents) :
         /\ stack' = <<MoveFileFrame(file, dest, cur, name, mime)>>
         /\ calls' = Append(calls, Call("move_file", file, dest, name, cur, mime))
  /\ UNCHANGED <<files, nextId, strays, faults, file_info, copied_files,
                 folders_copied, ret, raised, results, log>>

-----------------------------------------------------------------------------
(* Specifications *)

Init ==
  /\ files = InitFiles
  /\ nextId = Len(InitFiles) + 1
  /\ strays = 0
  /\ faults = 0
  /\ file_info = SnapshotOf(InitFiles)
  /\ copied_files = {}
  /\ folders_copied = <<>>
  /\ stack = <<>>
  /\ ret = NoId
  /\ raised = 0
  /\ calls = <<>>
  /\ results = <<>>
  /\ log = <<>>

MoveSteps == MoveFileGet \/ MoveFileUpdate

CleanupSteps ==
  \/ CleanupListCurrent \/ CleanupListDestination \/ CleanupSkip
  \/ CleanupDelete \/ CleanupMove \/ CleanupDone

CopySteps ==
  \/ CopyFileClone \/ CopyFileMoved \/ CopyFileReturn
  \/ CopyItemEnter \/ CopyItemCreate \/ CopyItemChild \/ CopyItemDone
  \/ CopyItemLeaf

RunSteps == RunTraversed \/ RunSweep \/ RunCleanupNext \/ RunCleanupDone \/ RunEnd

Provider == TransportFailure \/ ProviderStray

\* one run of the session
NextRun ==
  CallRun \/ RunSteps \/ CopySteps \/ CleanupSteps \/ MoveFileUpdate \/ Provider
SpecRun == Init /\ [][NextRun]_vars

\* a run of the session, and a run after it for an unknown folder
NextRerun ==
  \/ CallRun \/ CallRunAgain \/ RunSteps \/ CopySteps \/ CleanupSteps
  \/ MoveFileUpdate \/ Provider
SpecRerun == Init /\ [][NextRerun]_vars

\* a call of copy_item, with a provider that pages its listings
NextPaged ==
  \/ CallCopyOnce \/ CopySteps \/ CleanupSteps \/ MoveFileUpdate
  \/ ProviderStray \/ ProviderShortPage
SpecPaged == Init /\ [][NextPaged]_vars

\* a session over a drive that may hold a cycle of folders
InitEnds ==
  /\ files \in {InitFiles, LoopFiles}
  /\ nextId = Len(InitFiles) + 1
  /\ strays = 0
  /\ faults = 0
  /\ file_info = SnapshotOf(files)
  /\ copied_files = {}
  /\ folders_copied = <<>>
  /\ stack = <<>>
  /\ ret = NoId
  /\ raised = 0
  /\ calls = <<>>
  /\ results = <<>>
  /\ log = <<>>

\* the steps of the session itself
Steps ==
  RunSteps \/ CopySteps \/ CleanupSteps \/ MoveFileUpdate \/ CopyItemTooDeep

\* one run of the session, of any item into any folder; every operation of the
\* provider returns or fails, so the session always takes its next step
NextEnds == CallRunAnywhere \/ Steps \/ Provider
SpecEnds == InitEnds /\ [][NextEnds]_vars /\ WF_vars(Steps)

\* calls of copy_item
NextItem ==
  CallCopyItem \/ CopySteps \/ CleanupSteps \/ MoveFileUpdate \/ Provider
SpecItem == Init /\ [][NextItem]_vars

\* calls of move_file
NextMove == CallMoveFile \/ MoveSteps \/ TransportFailure
SpecMove == Init /\ [][NextMove]_vars

\* the construction of the session: the Snapshot is not yet there
InitBuild ==
  /\ files = InitFiles
  /\ nextId = Len(InitFiles) + 1
  /\ strays = 0
  /\ faults = 0
  /\ file_info = <<>>
  /\ copied_files = {}
  /\ folders_copied = <<>>
  /\ stack = <<GetAllFrame>>
  /\ ret = NoId
  /\ raised = 0
  /\ calls = <<>>
  /\ results = <<>>
  /\ log = <<>>

NextBuild == GetAllPage \/ GetAllDone
SpecBuild == InitBuild /\ [][NextBuild]_vars

Next ==
  \/ NextRun \/ NextRerun \/ NextItem \/ NextPaged \/ NextMove \/ NextBuild
  \/ NextEnds
Spec == Init /\ [][Next]_vars

-----------------------------------------------------------------------------
(* Properties *)

\* where in the log the k-th call of the user ends
CallEnd(k) == IF k < Len(calls) THEN calls[k + 1].at ELSE Len(log)

Returned(k) == k <= Len(results) /\ results[k].exc = NoExc

\* C1: the first copy_item(x, d) of a session, when it returns, returns an
\* id; a later copy_item(x, d) of the session then returns None and sends no
\* request at all (it only sleeps), so nothing is created a second time.
C1_Idempotence ==
  /\ (calls # <<>> /\ calls[1].fn = "copy_item" /\ Returned(1))
        => results[1].value # NoId
  /\ \A k \in DOMAIN calls :
       (/\ k >= 2
        /\ calls[1].fn = "copy_item" /\ calls[k].fn = "copy_item"
        /\ calls[k].id = calls[1].id /\ calls[k].dest = calls[1].dest
        /\ Returned(1))
       => /\ \A j \in (calls[k].at + 1)..CallEnd(k) : log[j].op = "sleep"
          /\ k <= Len(results)
                => results[k] = [value |-> NoId, exc |-> NoExc]

C1_Witness ==
  /\ Len(results) = 2
  /\ calls[1].fn = "copy_item" /\ calls[2].fn = "copy_item"
  /\ calls[2].id = calls[1].id /\ calls[2].dest = calls[1].dest
  /\ results[1].exc = NoExc /\ results[1].value # NoId
  /\ results[2] = [value |-> NoId, exc |-> NoExc]
  /\ CallEnd(2) = calls[2].at + 1

\* C5: while copy_item of a folder is processing a child, every child of the
\* folder with a higher priority has been processed to its end (it is in
\* copied_files: a file cloned and moved, a folder created with its whole
\* subtree copied), so folders come before spreadsheets, and spreadsheets
\* before the rest; in particular this holds when the child's copy is sent.
C5_PriorityOrder ==
  \A i \in 1..(Len(stack) - 1) :
    (stack[i].fn = "copy_item" /\ stack[i + 1].fn = "copy_item")
    => \A x \in ChildrenOf(stack[i + 1].item_id) :
         MIME_TYPE_ORDER(file_info[x].mimeType)
            > MIME_TYPE_ORDER(file_info[stack[i].item_id].mimeType)
         => /\ x \in copied_files
            /\ \E k \in DOMAIN log :
                 \/ log[k].op = "copy" /\ log[k].id = x
                 \/ log[k].op = "create" /\ log[k].b = x

\* the copy of an ordinary file has just been sent, inside the copy of its
\* folder, whose folder and spreadsheet children are done
C5_Witness ==
  /\ Len(stack) >= 4
  /\ stack[1].fn = "move_file"
  /\ stack[2].fn = "copy_file" /\ stack[2].pc = "moved"
  /\ stack[3].fn = "copy_item" /\ stack[3].item_id = 2
  /\ stack[4].fn = "copy_item" /\ stack[4].item_id = 1
  /\ log[Len(log)].op = "copy" /\ log[Len(log)].id = 2
  /\ {3, 4, 5} \subseteq copied_files

\* the requests since the call of the copy_file frame f
Since(f, op) == {k \in (f.start + 1)..Len(log) : log[k].op = op}

\* C8: copy_file sends one copy of the source, then one update of the clone
\* (remove the source's Snapshot parent, add the destination, name it as the
\* source is named in the Snapshot), then adds the source to copied_files,
\* then calls _cleanup_files(source's parent, destination) once, and returns
\* the clone's id.
C8_CopyFileSequence ==
  /\ \A i \in DOMAIN stack :
       LET f == stack[i]
           n == IF f.fn = "copy_file" THEN f.start ELSE 0
           current == file_info[f.file_id]
           called == IF current.mimeType = SPREADSHEET_TYPE THEN n + 4 ELSE n + 3
       IN /\ (f.fn = "copy_file" /\ f.pc = "moved")
             => /\ f.file_id \notin copied_files
                /\ Since(f, "copy") = {n + 1}
                /\ Since(f, "_cleanup_files") = {}
          /\ (f.fn = "copy_file" /\ f.pc = "cleaned")
             => /\ log[n + 1] = Entry("copy", f.file_id, f.moved, NoId, NoName)
                /\ log[n + 2] = Entry("update", f.moved, f.destination_parent_id,
                                      current.parent, current.name)
                /\ f.file_id \in copied_files
                /\ current.mimeType = SPREADSHEET_TYPE
                     => log[n + 3] = Sleep(SPREADSHEET_SLEEP)
                /\ log[called] = CleanupCall(current.parent,
                                             f.destination_parent_id)
                /\ Since(f, "copy") = {n + 1}
                /\ Since(f, "_cleanup_files") = {called}
  /\ Top("copy_item", "leaf")
     => \E k \in DOMAIN log :
          /\ log[k] = Entry("copy", stack[1].item_id, ret, NoId, NoName)
          /\ \A j \in (k + 1)..Len(log) : log[j].op # "copy"

\* copy_file of the spreadsheet is about to return, its clean-up done
C8_Witness ==
  /\ Top("copy_file", "cleaned")
  /\ stack[1].file_id = 5
  /\ stack[1].moved \in DOMAIN files
  /\ files[stack[1].moved].name = <<"s">>

\* the requests of one kind sent during the k-th call
During(k, op) == {j \in (calls[k].at + 1)..CallEnd(k) : log[j].op = op}

\* C10: a move_file that returns has sent exactly one update; it removes the
\* parent and gives the name the caller supplied, whenever the caller supplied
\* them; with parent, name and mime type all supplied no metadata is fetched;
\* afterwards the file has the destination among its parents, the removed
\* parent is gone and the other parents are as before; the file's id is
\* returned.
C10_MoveFile ==
  \A k \in DOMAIN calls :
    (calls[k].fn = "move_file" /\ Returned(k))
    => LET c == calls[k]
       IN /\ Cardinality(During(k, "update")) = 1
          /\ results[k].value = c.id
          /\ \A j \in During(k, "update") :
               /\ log[j].id = c.id /\ log[j].a = c.dest
               /\ c.cur # NoId => log[j].b = c.cur
               /\ c.name # NoName => log[j].name = c.name
               /\ k = Len(calls)
                    => files[c.id].parents
                         = Append(RemoveFirst(c.parents, log[j].b), c.dest)
          /\ (c.cur # NoId /\ c.name # NoName /\ c.mime # NoMime)
               => During(k, "get") = {}

\* the k-th call is over, by a result or by an exception
Finished(k) == k <= Len(results)

\* the calls of _cleanup_files logged after place j, up to place n
SweepAfter(j, n) ==
  SelectSeq(SubSeq(log, j + 1, n), LAMBDA e : e.op = "_cleanup_files")

\* one call of _cleanup_files for each pair of folders_copied, in its order
SweepOfMapping ==
  [i \in DOMAIN folders_copied |->
     CleanupCall(folders_copied[i][1], folders_copied[i][2])]

\* C3: a run that is over, by a result or by an exception, has slept
\* CLEANUP_SLEEP and has then called _cleanup_files once for each pair of
\* folders_copied, in the order of folders_copied.
C3_SweepAlways ==
  \A k \in DOMAIN calls :
    (calls[k].fn = "run" /\ Finished(k))
    => \E j \in During(k, "sleep") :
         /\ log[j].a = CLEANUP_SLEEP
         /\ SweepAfter(j, CallEnd(k)) = SweepOfMapping

\* the step ends run
RunEnds ==
  /\ stack # <<>> /\ stack' = <<>>
  /\ stack[Len(stack)].fn = "run"

\* C4: when run ends after its traversal raised, the caller gets the very
\* exception the traversal raised, whatever the sweep did; when it ends after
\* its traversal returned, the caller gets the id the traversal returned, the
\* id of the folder created for the root.
C4_Outcome ==
  [][RunEnds =>
       LET run == stack[Len(stack)]
           outcome == results'[Len(results')]
       IN IF run.failed
          THEN outcome = [value |-> NoId, exc |-> run.exception]
          ELSE /\ outcome = [value |-> run.result, exc |-> NoExc]
               /\ \E j \in DOMAIN log :
                    /\ log[j].op = "create" /\ log[j].id = run.result
                    /\ log[j].b = run.base_folder_id]_vars

\* the pairs (source folder, created folder) of the k-th call's creations
Created(k) == {<<log[j].b, log[j].id>> : j \in During(k, "create")}

\* C9: when a run is over, by a result or by an exception, folders_copied
\* holds each pair (source folder, created folder) of the run's creations, once,
\* and nothing else.
C9_MappingComplete ==
  \A k \in DOMAIN calls :
    (calls[k].fn = "run" /\ Finished(k))
    => /\ Range(folders_copied) = Created(k)
       /\ Len(folders_copied) = Cardinality(Created(k))

\* the pass of _cleanup_files at the top of the stack has gone through its
\* listing and is about to return
PassDone == Top("_cleanup_files", "loop") /\ stack[1].todo = {}

\* the children of a folder that carry a name
Named(fs, parent, name) == {i \in DOMAIN ListOp(fs, parent) : fs[i].name = name}

\* C2: when a pass of _cleanup_files returns, for each file it listed in the
\* source parent that the Snapshot does not hold and that is named
\* "Copy of X", and each file of another id it listed in the destination
\* under the name X: the destination's file is gone, the listed copy is a
\* child of the destination and not of the source parent and is named X, and
\* the destination has exactly one child named X.
C2_Promotion ==
  PassDone
  => LET f == stack[1]
     IN \A s \in DOMAIN f.files_in_current, d \in DOMAIN f.files_in_destination :
          (/\ IsNew(s)
           /\ StartsWith(f.files_in_current[s].name, prefix)
           /\ f.files_in_destination[d].name = CleanOf(f, s)
           /\ d # s)
          => /\ d \notin DOMAIN files
             /\ s \in DOMAIN files
             /\ f.destination_parent_id \in Range(files[s].parents)
             /\ f.parent_id \notin Range(files[s].parents)
             /\ files[s].name = CleanOf(f, s)
             /\ Cardinality(Named(files, f.destination_parent_id, CleanOf(f, s))) = 1

\* the Snapshot's subtree of an item
RECURSIVE Subtree(_)
Subtree(item_id) ==
  {item_id}
    \cup UNION {Subtree(c) :
                 c \in {d \in DOMAIN file_info : file_info[d].parent = item_id}}

\* what the k-th call made for x: the folder created for it, the clone of it
CopiesOf(k, x) ==
  {log[j].id : j \in {i \in During(k, "create") : log[i].b = x}}
    \cup {log[j].a : j \in {i \in During(k, "copy") : log[i].id = x}}

\* the requests of the k-th call that created a folder for x or copied x
MakingsOf(k, x) ==
  {j \in During(k, "create") : log[j].b = x}
    \cup {j \in During(k, "copy") : log[j].id = x}

\* the k-th call is over and no call has followed it
JustFinished(k) == k = Len(calls) /\ Finished(k)

\* the k-th call is a copy_item of a folder none of whose subtree the session
\* has copied before, it has returned, and there has been no stray: the
\* provider has made none, and no earlier call has failed and left its clone
\* behind
WholeCopy(k) ==
  /\ calls[k].fn = "copy_item"
  /\ calls[k].id \in DOMAIN file_info
  /\ file_info[calls[k].id].mimeType = FOLDER_TYPE
  /\ calls[k].copied \cap Subtree(calls[k].id) = {}
  /\ JustFinished(k)
  /\ \A i \in 1..k : Returned(i)
  /\ strays = 0

\* the tree the k-th call made mirrors the Snapshot's subtree of its root
Mirrors(k) ==
  LET c == calls[k]
      made(x) == CHOOSE n \in CopiesOf(k, x) : TRUE
  IN /\ \A x \in Subtree(c.id) : Cardinality(MakingsOf(k, x)) = 1
     /\ \A j \in During(k, "create") : log[j].b \in Subtree(c.id)
     /\ \A j \in During(k, "copy") : log[j].id \in Subtree(c.id)
     /\ results[k].value = made(c.id)
     /\ \A x \in Subtree(c.id) :
          /\ made(x) \in DOMAIN files
          /\ files[made(x)].name = file_info[x].name
          /\ files[made(x)].mimeType = file_info[x].mimeType
          /\ ~StartsWith(files[made(x)].name, prefix)
          /\ files[made(x)].parents
               = <<IF x = c.id THEN c.dest ELSE made(file_info[x].parent)>>

\* C6: with no stray made, a copy_item(root, D) of a folder that returns has
\* made one folder for each folder and one file for each file of the
\* Snapshot's subtree of root, each named as its source and placed under the
\* copy of its source's parent, the copy of root under D, and none named
\* "Copy of ...".
C6_TreeShape == \A k \in DOMAIN calls : WholeCopy(k) => Mirrors(k)

\* the listed files of the pass f whose clean name the destination's names map
\* to their own id
Resolved(f) ==
  {id \in DOMAIN f.files_in_current :
     /\ IsNew(id)
     /\ CleanOf(f, id) \in DOMAIN f.destination_file_name_to_id
     /\ f.destination_file_name_to_id[CleanOf(f, id)] = id}

\* the frames of the passes of _cleanup_files that have listed
Passes ==
  {i \in DOMAIN stack :
     stack[i].fn = "_cleanup_files" /\ stack[i].pc \in {"loop", "move"}}

\* C7, as stated: a pass of _cleanup_files sends neither a delete nor an
\* update for the id of a listed file that is already resolved.
C7_NoRequestForResolved ==
  \A i \in Passes :
    \A id \in Resolved(stack[i]) :
      \A j \in Since(stack[i], "delete") \cup Since(stack[i], "update") :
        log[j].id # id

\* C7, amended: a pass of _cleanup_files sends no update for the id of a
\* listed file that is already resolved, and sends a delete for it only when
\* it listed another file, of another id, that the Snapshot does not hold and
\* that has the same clean name.
C7_ResolvedLeftAlone ==
  \A i \in Passes :
    LET f == stack[i]
    IN \A id \in Resolved(f) :
         /\ \A j \in Since(f, "update") : log[j].id # id
         /\ (\E j \in Since(f, "delete") : log[j].id = id)
              => \E other \in DOMAIN f.files_in_current \ {id} :
                   IsNew(other) /\ CleanOf(f, other) = CleanOf(f, id)

\* a pass has gone through its listing, which held a resolved file
C7_Witness == PassDone /\ Resolved(stack[1]) # {}

\* the files of the Snapshot that the pass f listed in the source parent
Originals(f) == {id \in DOMAIN f.files_in_current : ~IsNew(id)}

\* C11: while a pass of _cleanup_files goes through its listing, no step
\* sends an update for a file of the Snapshot that it listed in the source
\* parent, and each of these files stays on the drive with its name and its
\* parents as they were.
C11_OriginalsUntouched ==
  [][\A i \in Passes :
       \A id \in Originals(stack[i]) :
         /\ \A j \in (Len(log) + 1)..Len(log') :
              ~(log'[j].op = "update" /\ log'[j].id = id)
         /\ id \in DOMAIN files
              => id \in DOMAIN files' /\ files'[id] = files[id]]_vars

\* the listed files of the pass f that the Snapshot does not hold and whose
\* clean name is no key of the destination's names
Uncollided(f) ==
  {id \in DOMAIN f.files_in_current :
     IsNew(id) /\ CleanOf(f, id) \notin DOMAIN f.destination_file_name_to_id}

\* the updates the pass f has sent for the file id
MovesOf(f, id) == {j \in Since(f, "update") : log[j].id = id}

\* C12: when a pass of _cleanup_files returns, for each file it listed in the
\* source parent that the Snapshot does not hold and whose clean name is no
\* key of the destination's names, it has sent one update, which takes the
\* file from the source parent to the destination under the clean name; no
\* delete came before that update on the file's behalf, and none was sent for
\* the file; the file is a child of the destination, named by its clean name,
\* and no longer a child of the source parent.
C12_StrayMoved ==
  PassDone
  => LET f == stack[1]
     IN \A id \in Uncollided(f) :
          /\ Cardinality(MovesOf(f, id)) = 1
          /\ \A j \in MovesOf(f, id) :
               /\ log[j] = Entry("update", id, f.destination_parent_id,
                                 f.parent_id, CleanOf(f, id))
               /\ log[j - 1].op # "delete"
          /\ \A j \in Since(f, "delete") : log[j].id # id
          /\ id \in DOMAIN files
          /\ files[id].name = CleanOf(f, id)
          /\ f.destination_parent_id \in Range(files[id].parents)
          /\ f.parent_id # f.destination_parent_id
               => f.parent_id \notin Range(files[id].parents)

\* a pass returns after it has moved a file named "Copy of ..." whose clean
\* name the destination did not hold
C12_Witness ==
  /\ PassDone
  /\ \E id \in Uncollided(stack[1]) :
       /\ StartsWith(stack[1].files_in_current[id].name, prefix)
       /\ MovesOf(stack[1], id) # {}
       /\ stack[1].destination_parent_id \in Range(files[id].parents)

\* the step is a turn of the loop of _get_all_file_info
ListsPage ==
  /\ Top("_get_all_file_info", "loop")
  /\ Len(log') = Len(log) + 1
  /\ log'[Len(log')].op = "list"

\* the step ends _get_all_file_info
BuildEnds == Top("_get_all_file_info", "loop") /\ stack' = Tail(stack)

\* C13: the first list of _get_all_file_info passes no token; each later list
\* passes the token the list before it returned, and there is none after a
\* list that returned no token; when _get_all_file_info ends, the last list
\* returned no token, and the Snapshot holds exactly the ids of the pages
\* returned, each with the info its page gave, which is every file of the
\* drive.
C13_Exhaustive ==
  [][/\ ListsPage
        => LET f == stack[1]
           IN IF f.returned = <<>>
              THEN log'[Len(log')].a = NoToken
              ELSE /\ log[Len(log)].b # NoToken
                   /\ log'[Len(log')].a = log[Len(log)].b
     /\ BuildEnds
        => LET f == stack[1]
           IN /\ f.returned # <<>>
              /\ log[Len(log)].b = NoToken
              /\ Cardinality({j \in DOMAIN log : log[j].op = "list"})
                   = Len(f.returned)
              /\ DOMAIN file_info' = UNION Range(f.returned)
              /\ \A id \in DOMAIN file_info' :
                   file_info'[id] = SnapshotOf(files)[id]
              /\ DOMAIN file_info' = DOMAIN files]_vars

\* the Snapshot has been built from as many pages as the provider may return
C13_Witness ==
  /\ stack = <<>>
  /\ Len(log) = MaxPages
  /\ \A j \in DOMAIN log : log[j].op = "list"
  /\ DOMAIN file_info = DOMAIN files

\* the name the k-th call asks for the copy of the folder x
AskedName(k, x) ==
  IF x = calls[k].id /\ calls[k].name # NoName
  THEN calls[k].name
  ELSE file_info[x].name

\* C14: in a run or a copy_item, the folder created for the root is named
\* new_name, or as the root is named in the Snapshot when no new_name was
\* given; every folder created for a descendant is named as the descendant is
\* in the Snapshot, and the clone of every file is moved under the name its
\* source has in the Snapshot.
C14_NameOverride ==
  \A k \in DOMAIN calls :
    calls[k].fn \in {"run", "copy_item"}
    => /\ \A j \in During(k, "create") : log[j].name = AskedName(k, log[j].b)
       /\ \A j \in During(k, "copy") :
            (j < Len(log) /\ log[j + 1].op = "update")
            => /\ log[j + 1].id = log[j].a
               /\ log[j + 1].name = file_info[log[j].id].name

\* a run with a new name has returned: the root's copy carries the new name,
\* the folder and the files below it their own
C14_Witness ==
  /\ Len(calls) = 1 /\ calls[1].fn = "run" /\ calls[1].name = <<"n">>
  /\ Returned(1)
  /\ \E j \in During(1, "create") : log[j].b = 1 /\ log[j].name = <<"n">>
  /\ \E j \in During(1, "create") : log[j].b = 3 /\ log[j].name = <<"b">>
  /\ \E j \in During(1, "update") : log[j].name = <<"c">>

\* copy_item is entered for an id the Snapshot does not hold
LookupFails == Top("copy_item", "start") /\ stack[1].item_id \notin DOMAIN file_info

C16_SnapshotImmutable ==
  [][/\ file_info' = file_info
     /\ (DOMAIN files' \ DOMAIN files) \cap DOMAIN file_info' = {}]_vars

\* a run is over that created a folder, cloned a file and met a stray, and the
\* Snapshot is the one built at the start
C16_Witness ==
  /\ stack = <<>> /\ Len(results) = 1
  /\ strays >= 1
  /\ \E j \in DOMAIN log : log[j].op = "create" /\ log[j].id \notin DOMAIN file_info
  /\ \E j \in DOMAIN log : log[j].op = "copy" /\ log[j].a \notin DOMAIN file_info
  /\ \E j \in DOMAIN log : log[j].op = "update" /\ log[j].id < 0
  /\ file_info = SnapshotOf(InitFiles)

\* the step is the listing of the source parent by a pass
ListsCurrent ==
  /\ Top("_cleanup_files", "list_current")
  /\ stack' # <<>> /\ stack'[1].fn = "_cleanup_files"
  /\ stack'[1].pc = "list_destination"

\* the step is the listing of the destination by a pass
ListsDestination ==
  /\ Top("_cleanup_files", "list_destination")
  /\ stack' # <<>> /\ stack'[1].fn = "_cleanup_files"
  /\ stack'[1].pc = "loop"

\* C17: a pass of _cleanup_files goes through every child the source parent
\* has when it is listed, and the name of every child the destination has
\* when it is listed is a key of the pass's names, on however many pages the
\* provider returns the children.
C17_CompleteListings ==
  [][/\ ListsCurrent
        => DOMAIN stack'[1].files_in_current
             = DOMAIN ListOp(files, stack[1].parent_id)
     /\ ListsDestination
        => /\ stack'[1].todo = DOMAIN stack[1].files_in_current
           /\ \A i \in DOMAIN ListOp(files, stack[1].destination_parent_id) :
                files[i].name \in DOMAIN stack'[1].destination_file_name_to_id]_vars

\* the traversal of the k-th call, a run, has returned
TraversalReturned(k) ==
  \/ Returned(k)
  \/ /\ k = Len(calls) /\ stack # <<>>
     /\ stack[Len(stack)].fn = "run"
     /\ stack[Len(stack)].pc # "traverse"
     /\ ~stack[Len(stack)].failed

\* C18: a run sends create only for folders and copy only for files of the
\* Snapshot's subtree of its root (so never for a file made during the
\* session, and none at all when the Snapshot does not hold the root), at most
\* one for each; once its traversal has returned it has sent exactly one for
\* each.
C18_ExactlyOnce ==
  \A k \in DOMAIN calls :
    calls[k].fn = "run"
    => IF calls[k].id \notin DOMAIN file_info
       THEN During(k, "create") \cup During(k, "copy") = {}
       ELSE /\ \A j \in During(k, "create") :
                 /\ log[j].b \in Subtree(calls[k].id)
                 /\ file_info[log[j].b].mimeType = FOLDER_TYPE
            /\ \A j \in During(k, "copy") :
                 /\ log[j].id \in Subtree(calls[k].id)
                 /\ file_info[log[j].id].mimeType # FOLDER_TYPE
            /\ \A x \in Subtree(calls[k].id) : Cardinality(MakingsOf(k, x)) <= 1
            /\ TraversalReturned(k)
                 => \A x \in Subtree(calls[k].id) :
                      Cardinality(MakingsOf(k, x)) = 1

\* a run of the root has returned after a stray was cleaned up: two folders
\* created, three files copied
C18_Witness ==
  /\ Len(calls) = 1 /\ calls[1].fn = "run" /\ calls[1].id = 1
  /\ Returned(1)
  /\ strays >= 1
  /\ Cardinality(During(1, "create")) = 2
  /\ Cardinality(During(1, "copy")) = 3

\* C19: under a provider whose operations each return or fail, a run that has
\* begun ends, returning or raising: whatever its root (a folder, a file, an
\* id the Snapshot does not hold), whatever its destination (outside the root,
\* the root itself, a folder inside it), and even if the Snapshot's folders
\* hold each other.
C19_Termination == (stack # <<>>) ~> (stack = <<>>)

\* a run of the root into a folder of its own subtree has returned
C19_Witness ==
  /\ Len(calls) = 1 /\ calls[1].fn = "run"
  /\ calls[1].id = 1 /\ calls[1].dest = 3
  /\ file_info[1].parent = NoId
  /\ Returned(1)
  /\ Cardinality(During(1, "create")) = 2

\* the update by which copy_file moves the clone it has just made
Reparents(j) ==
  /\ j \in DOMAIN log /\ j > 1
  /\ log[j].op = "update" /\ log[j - 1].op = "copy"
  /\ log[j].id = log[j - 1].a

\* C20: copy_file pauses for SPREADSHEET_SLEEP exactly when the Snapshot gives
\* the source the spreadsheet type: what follows the update that moves the
\* clone is the pause and then the call of _cleanup_files for a spreadsheet,
\* and the call of _cleanup_files at once for any other type; so the pause
\* comes after the update and before the first listing of the clean-up, and
\* there is no such pause anywhere else.
C20_Settle ==
  /\ \A j \in DOMAIN log :
       (Reparents(j) /\ j < Len(log))
       => IF file_info[log[j - 1].id].mimeType = SPREADSHEET_TYPE
          THEN /\ log[j + 1] = Sleep(SPREADSHEET_SLEEP)
               /\ j + 2 \in DOMAIN log
               /\ log[j + 2].op = "_cleanup_files"
          ELSE log[j + 1].op = "_cleanup_files"
  /\ \A j \in DOMAIN log :
       log[j] = Sleep(SPREADSHEET_SLEEP)
       => /\ Reparents(j - 1)
          /\ file_info[log[j - 2].id].mimeType = SPREADSHEET_TYPE
  /\ \A i \in DOMAIN stack :
       (stack[i].fn = "copy_file" /\ stack[i].pc # "cleaned")
       => \A j \in (stack[i].start + 1)..Len(log) :
            log[j] # Sleep(SPREADSHEET_SLEEP)

\* the spreadsheet and another file have been copied, the one with a pause
\* before its clean-up listed, the other without
C20_Witness ==
  /\ \E j \in DOMAIN log :
       /\ log[j] = Sleep(SPREADSHEET_SLEEP)
       /\ j + 2 \in DOMAIN log
       /\ log[j + 2].op = "list"
       /\ log[j - 2].id = 5
  /\ \E j \in DOMAIN log :
       /\ Reparents(j) /\ log[j - 1].id = 2
       /\ j + 2 \in DOMAIN log
       /\ log[j + 1].op = "_cleanup_files" /\ log[j + 2].op = "list"

\* C21: no delete is ever sent for a file the Snapshot holds, so the originals
\* and what the destination held at session start stay on the drive.
C21_NoDeleteOfSnapshot ==
  /\ \A j \in DOMAIN log : log[j].op = "delete" => log[j].id \notin DOMAIN file_info
  /\ DOMAIN file_info \subseteq DOMAIN files

\* C22: when copy_item of a file is about to return the id copy_file gave it,
\* the drive holds a file of that id, in the destination parent, under the
\* name the Snapshot gives the source.
C22_ReturnedIdLive ==
  Top("copy_item", "leaf")
  => /\ ret \in DOMAIN files
     /\ stack[1].destination_parent_id \in Range(files[ret].parents)
     /\ files[ret].name = file_info[stack[1].item_id].name

\* the ids the pass f of _cleanup_files has deleted
DeletedBy(f) == {log[j].id : j \in {i \in (f.start + 1)..Len(log) : log[i].op = "delete"}}

\* the step is the pass's _delete_file for the listed file id: the provider
\* deletes the file, or fails for want of it
DeletesFor(f, id) ==
  /\ IsNew(id) /\ Collides(f, id) /\ ~AlreadyMoved(f, id)
  /\ \/ /\ Len(log') = Len(log) + 1
        /\ log'[Len(log')].op = "delete"
        /\ log'[Len(log')].id = IdToDelete(f, id)
     \/ /\ IdToDelete(f, id) \notin DOMAIN files
        /\ raised' = raised + 1 /\ faults' = faults

\* C23: a pass of _cleanup_files never sends a delete for an id it has
\* deleted before.
C23_NoDoubleDelete ==
  [][(Top("_cleanup_files", "loop") /\ Passed(stack[1]) = {})
     => \A id \in stack[1].todo :
          DeletesFor(stack[1], id) => IdToDelete(stack[1], id) \notin DeletedBy(stack[1])]_vars

\* the pass of _cleanup_files that is running, if one is: its frame, or the
\* frame under the move_file it has called
PassRunning ==
  IF stack # <<>> /\ stack[1].fn = "_cleanup_files" THEN {1}
  ELSE IF Len(stack) >= 2 /\ stack[1].fn = "move_file"
          /\ stack[2].fn = "_cleanup_files" THEN {2}
  ELSE {}

\* C24: when no two children of the destination parent share a name as a
\* pass of _cleanup_files is called, no step of the pass makes two of them
\* share one; so the destination's names are distinct after the pass.
C24_NamesStayDistinct ==
  [][\A i \in PassRunning :
       (/\ strays' = strays
        /\ stack[i].clear
        /\ Unambiguous(files, stack[i].destination_parent_id))
       => Unambiguous(files', stack[i].destination_parent_id)]_vars

\* C25: no update is ever sent for a folder the session has created: it keeps
\* the parent and the name it was created with.
C25_CreatedFolderKept ==
  \A j, k \in DOMAIN log :
    (log[j].op = "create" /\ log[k].op = "update") => log[k].id # log[j].id

\* id is a child of parent on the drive
ChildOf(id, parent) == id \in DOMAIN files /\ parent \in Range(files[id].parents)

\* a pass of the final sweep of a run whose traversal returned has gone
\* through its listing
SweepPassOver ==
  /\ Top("_cleanup_files", "loop") /\ stack[1].todo = {}
  /\ Len(stack) = 3
  /\ stack[2].fn = "run_cleanup"
  /\ stack[3].fn = "run" /\ ~stack[3].failed

\* C26: in a run of a folder whose traversal returned, when a pass of the
\* final sweep has gone through its listing, no file it listed under the
\* source folder that the Snapshot does not hold is a child of that folder any
\* more; and when the run has returned, every file the Snapshot holds under a
\* folder of the root's subtree is still a child of that folder.
C26_SourceTreeRestored ==
  /\ SweepPassOver
     => \A id \in DOMAIN stack[1].files_in_current :
          id \notin DOMAIN file_info => ~ChildOf(id, stack[1].parent_id)
  /\ \A k \in DOMAIN calls :
       (/\ calls[k].fn = "run" /\ Returned(k)
        /\ calls[k].id \in DOMAIN file_info
        /\ file_info[calls[k].id].mimeType = FOLDER_TYPE)
       => \A x \in Subtree(calls[k].id) \ {calls[k].id} :
            ChildOf(x, file_info[x].parent)

\* a run of the root has returned, and its final sweep has moved a stray out
\* of a source folder
C26_Witness ==
  /\ Len(calls) = 1 /\ calls[1].fn = "run" /\ calls[1].id = 1
  /\ Returned(1)
  /\ \E j, k \in DOMAIN log :
       /\ log[j] = Sleep(CLEANUP_SLEEP)
       /\ k > j
       /\ log[k].op = "update" /\ log[k].id < 0

====
